---- MODULE Spec2Model ----
(***************************************************************************)
(* Document identity, change detection and docket numbering of the         *)
(* harvesting pipeline: DatabaseManager (utils/db_manager.py), S3Manager   *)
(* .process_documents (utils/s3_manager.py) and process_country (run.py),  *)
(* against the relational table they share.                                *)
(*                                                                         *)
(* Text values (docket ids, revision ids, prefixes, origin tokens, titles, *)
(* urls) are sequences of one-character strings.  Declared dates are the   *)
(* strings the scrapers emit (or None); date objects are day ordinals.     *)
(* Every database call is its own connection (db_connect.get_engine), so   *)
(* each call is one atomic step and runs interleave between calls.         *)
(***************************************************************************)
EXTENDS Integers, Sequences, FiniteSets, TLC

\* ------------------------------------------------------------------ bounds
MaxRuns == 2
MaxBatch == 2
MaxFaults == 1
MaxPrior == 1
MaxForeign == 2

\* ------------------------------------------------------------ text helpers
Digits == <<"0", "1", "2", "3", "4", "5", "6", "7", "8", "9">>

IsDigit(c) == \E i \in 1..10 : Digits[i] = c

DigitVal(c) == (CHOOSE i \in 1..10 : Digits[i] = c) - 1

\* Python's f"{n}" of a non-negative integer.
RECURSIVE Str(_)
Str(n) == IF n < 10 THEN <<Digits[n + 1]>>
          ELSE Str(n \div 10) \o <<Digits[(n % 10) + 1]>>

\* MySQL SUBSTRING(s, pos): the tail of s from the 1-based position pos.
Substring(s, pos) == SubSeq(s, pos, Len(s))

\* MySQL CAST(s AS UNSIGNED): the number its leading digits spell, 0 if none.
RECURSIVE CastAcc(_, _)
CastAcc(s, acc) == IF s = <<>> \/ ~IsDigit(Head(s)) THEN acc
                   ELSE CastAcc(Tail(s), acc * 10 + DigitVal(Head(s)))

CastUnsigned(s) == CastAcc(s, 0)

\* s LIKE 'p%'
StartsWith(s, p) == Len(s) >= Len(p) /\ SubSeq(s, 1, Len(p)) = p

Max(S) == CHOOSE x \in S : \A y \in S : y <= x

\* ---------------------------------------------------------- configuration
\* countries.json: one entry per source, with its docket prefix and agency.
Sources == {"BE", "CL"}

docket_prefix(s) == IF s = "BE" THEN <<"B", "E">> ELSE <<"C", "L">>

agency_id(s) == IF s = "BE" THEN 1 ELSE 2

s3_country_folder(s) == s

\* ------------------------------------------------------------------ dates
None == "None"

\* datetime.strptime(x, "%Y-%m-%d").date() of a string: the day it names, or
\* 0 when strptime raises.  "%m" and "%d" accept unpadded numbers.
Strptime(x) == CASE x = "2024-01-01" -> 1
                 [] x = "2024-03-01" -> 2
                 [] x = "2024-3-1" -> 2
                 [] OTHER -> 0

\* date.strftime('%Y-%m-%d')
Strftime(d) == IF d = 1 THEN "2024-01-01" ELSE "2024-03-01"

\* --------------------------------------------------------- raw descriptors
\* What a scraper's scrape_data returns for one document.  Dates are strings
\* or None.  An absent or empty atom_id is <<>> (both are falsy in
\* `item.get('atom_id') or ...`).
Atoms == {<<"u", "1">>, <<"u", "2">>, <<"u", "3">>}

DatePairs(a) ==
    CASE a = <<"u", "1">> -> {<<"2024-01-01", None>>, <<"2024-01-01", "2024-03-01">>}
      [] a = <<"u", "2">> -> {<<None, None>>, <<None, "2024-01-01">>}
      [] OTHER -> {<<"2024-03-01", "2024-03-01">>}

Descriptors ==
    UNION {{[atom_id |-> a, title |-> <<"t">> \o a, url |-> <<"p">>,
             publish_date |-> dp[1], modify_date |-> dp[2]] : dp \in DatePairs(a)} :
           a \in Atoms}

\* Every shape of declared dates: absent, two days, an unpadded spelling of
\* the second day, and a string that names no date.
DateValues == {None, "2024-01-01", "2024-03-01", "2024-3-1", "bad"}

DatedDescriptors ==
    {[atom_id |-> a, title |-> <<"t">> \o a, url |-> <<"p">>,
      publish_date |-> x, modify_date |-> y] :
        a \in {<<"u", "1">>, <<"u", "2">>}, x \in DateValues, y \in DateValues}

\* Batches a scrape may return: up to MaxBatch descriptors, in any order.
Batches == UNION {[1..n -> Descriptors] : n \in 0..MaxBatch}

\* ------------------------------------------------------------ fingerprint
DisallowedChars == {"<", ">", ":", "\"", "/", "\\", "|", "?", "*"}

Whitespace == {" ", "\t", "\n", "\r"}

\* str.strip(): without its leading and trailing whitespace.
RECURSIVE Strip(_)
Strip(s) == IF s = <<>> THEN s
            ELSE IF Head(s) \in Whitespace THEN Strip(Tail(s))
            ELSE IF s[Len(s)] \in Whitespace THEN Strip(SubSeq(s, 1, Len(s) - 1))
            ELSE s

\* re.sub(r'[<>:"/\\|?*]', '', title).strip()
clean_title(title) == Strip(SelectSeq(title, LAMBDA c : c \notin DisallowedChars))

\* Stands for a key the descriptor's dict does not have.
Absent == <<"(absent)">>

\* Line 65 raises KeyError when it comes to item['title'] or item['url'] and
\* the key is not there.
hash_input_raises(item) ==
    item.atom_id = <<>> /\ (item.title = Absent \/ item.url = Absent)

\* The fingerprint input taken from the title and the url whatever the
\* origin token.
hash_input_TitleUrl(item) == clean_title(item.title) \o item.url

\* item.get('atom_id') or f"{clean_title(item['title'])}{item['url']}"
hash_input(item) == IF item.atom_id # <<>> THEN item.atom_id
                    ELSE clean_title(item.title) \o item.url

\* hashlib.md5(...).hexdigest(): a digest that tells distinct inputs apart.
md5(x) == <<"md5">> \o x

\* ---------------------------------------------------------- normalization
\* Lines 40-49: publish_date_obj (0 is None).
publish_date_obj(item) ==
    IF item.publish_date = None THEN 0 ELSE Strptime(item.publish_date)

\* The normalization without line 53-54's default: an absent modify date
\* stays absent.
normalized_modify_date_NoDefault(item) ==
    LET mod == item.modify_date
        mod_obj == IF mod = None THEN 0
                   ELSE IF Strptime(mod) # 0 THEN Strptime(mod)
                   ELSE publish_date_obj(item)
    IN IF mod_obj # 0 THEN Strftime(mod_obj) ELSE None

\* Lines 52-62: the normalized modify_date string (or None).
normalized_modify_date(item) ==
    LET pub == item.publish_date
        mod == IF item.modify_date = None THEN pub ELSE item.modify_date
        mod_obj == IF mod = None THEN 0
                   ELSE IF Strptime(mod) # 0 THEN Strptime(mod)
                   ELSE publish_date_obj(item)
    IN IF mod_obj # 0 THEN Strftime(mod_obj) ELSE None

NoText == <<>>

\* One pass of the first loop of assign_document_ids over descriptor d, the
\* n-th of the batch.  The fields set later start empty.
Normalize(d, n) ==
    [n |-> n, atom_id |-> d.atom_id, title |-> d.title, url |-> d.url,
     publish_date |-> d.publish_date,
     publish_date_obj |-> publish_date_obj(d),
     modify_date |-> normalized_modify_date(d),
     doc_hash |-> md5(hash_input(d)),
     docket_id |-> NoText, doc_id |-> NoText,
     is_new |-> FALSE, needs_update |-> FALSE, aws_key |-> NoText,
     \* history: the modify date as declared, and the stored dates the item
     \* was compared with (line 92's `old`)
     declared_modify_date |-> d.modify_date,
     known |-> FALSE, old_publish_date |-> None, old_modifyDate |-> None,
     old_agency_id |-> 0]

\* ------------------------------------------------------------------ state
VARIABLES
    store,      \* the table Config.DB_TABLE: its rows, in insertion order
    runs,       \* per run of process_country: its position and local values
    faults,     \* failures injected so far (queries, inserts, downloads)
    allocated,  \* history: every docket id given to a new item, and to which
    main        \* run.py's main: its position and its results dict

vars == <<store, runs, faults, allocated, main>>

RunIds == 1..MaxRuns

IdleRun ==
    [pc |-> "idle", source |-> "BE", items |-> <<>>, idx |-> 1, max_num |-> 0,
     existing_items |-> <<>>, new_items |-> <<>>, processed |-> <<>>,
     new_df |-> <<>>, update_df |-> <<>>, status |-> "none", count |-> 0,
     error |-> "none", first |-> <<>>,
     \* history of this run, read by the properties only
     max_failed |-> FALSE, max_hidden |-> 0, lookup_failed |-> {}, todo |-> {},
     write_failed |-> FALSE, wrote_after_failure |-> FALSE, persisted |-> {},
     attempted |-> {}, uploaded |-> {}, dropped_new |-> {}, classified |-> <<>>]

\* main before it has submitted anything (lines 67-77): results = {}.  The
\* dict is the set of its (code, count) entries; submitted counts the tasks
\* handed to the pool, collected holds the futures as_completed has yielded.
IdleMain == [pc |-> "start", results |-> {}, submitted |-> 0, collected |-> {},
             total |-> 0]

Init ==
    /\ store = <<>>
    /\ runs = [r \in RunIds |-> IdleRun]
    /\ faults = 0
    /\ allocated = {}
    /\ main = IdleMain

\* A database call, a download or an upload may fail while the budget lasts.
Outcomes == IF faults < MaxFaults THEN {TRUE, FALSE} ELSE {TRUE}

Charge(ok) == IF ok THEN faults ELSE faults + 1

\* ---------------------------------------------------------------- queries
\* The numbers the max-sequence query of get_max_docket_number ranges over:
\* CAST(SUBSTRING(docket_id, prefix_len + 2) AS UNSIGNED) of the rows WHERE
\* docket_id LIKE 'prefix-%' AND agency_id = :agency_id.
MaxQueryValues(st, s) ==
    {CastUnsigned(Substring(st[i].docket_id, Len(docket_prefix(s)) + 2)) :
        i \in {j \in 1..Len(st) :
                 /\ StartsWith(st[j].docket_id, docket_prefix(s) \o <<"-">>)
                 /\ st[j].agency_id = agency_id(s)}}

\* get_max_docket_number: result[0]['max_num'] if success and result and
\* result[0]['max_num'] else 0.  MAX over no rows is NULL.
get_max_docket_number(st, s, success) ==
    IF success /\ MaxQueryValues(st, s) # {} THEN Max(MaxQueryValues(st, s)) ELSE 0

\* SELECT ... WHERE doc_hash = :doc_hash (no ORDER BY: any matching row may
\* come first).
RowsByHash(st, h) == {st[i] : i \in {j \in 1..Len(st) : st[j].doc_hash = h}}

\* SELECT doc_id ... WHERE doc_id IN (...)
ExistingIds(st, ids) == {st[i].doc_id : i \in 1..Len(st)} \cap ids

RowsById(st, id) == {st[i] : i \in {j \in 1..Len(st) : st[j].doc_id = id}}

\* --------------------------------------------------------- classification
\* _dt: the date a stored or new date string names, None (0) otherwise.
Dt(x) == IF x = None THEN 0 ELSE Strptime(x)

\* The classification as it would be if any absent date meant "changed".
needs_update_AnyAbsentChanged(old, item) ==
    LET old_pub == Dt(old.publish_date)
        new_pub == Dt(item.publish_date)
        old_mod == Dt(old.modifyDate)
        new_mod == Dt(item.modify_date)
    IN IF new_pub # 0 /\ new_mod # 0
       THEN old_pub # new_pub \/ old_mod # new_mod
       ELSE TRUE

\* Lines 92-118: whether a known descriptor needs an update.
needs_update(old, item) ==
    LET old_pub == Dt(old.publish_date)
        new_pub == Dt(item.publish_date)
        old_mod == Dt(old.modifyDate)
        new_mod == Dt(item.modify_date)
    IN IF new_pub # 0 \/ new_mod # 0
       THEN old_pub # new_pub \/ old_mod # new_mod
       ELSE TRUE

\* The tagging with CASE 2 of lines 116-118 turned round: a known descriptor
\* without dates needs no update.
TagExisting_DatelessUnchanged(item, old) ==
    [item EXCEPT !.docket_id = old.docket_id, !.doc_id = old.doc_id,
                 !.is_new = FALSE,
                 !.needs_update = IF Dt(item.publish_date) = 0 /\ Dt(item.modify_date) = 0
                                  THEN FALSE ELSE needs_update(old, item),
                 !.known = TRUE, !.old_publish_date = old.publish_date,
                 !.old_modifyDate = old.modifyDate, !.old_agency_id = old.agency_id]

\* Lines 120-125: a known descriptor takes the ids of its row.
TagExisting(item, old) ==
    [item EXCEPT !.docket_id = old.docket_id, !.doc_id = old.doc_id,
                 !.is_new = FALSE, !.needs_update = needs_update(old, item),
                 !.known = TRUE, !.old_publish_date = old.publish_date,
                 !.old_modifyDate = old.modifyDate, !.old_agency_id = old.agency_id]

\* ------------------------------------------------------------- assignment
\* Line 129: the sort key is `publish_date_obj or datetime.min`; a date and a
\* datetime do not compare, so a list holding both kinds of key makes
\* list.sort raise TypeError.
SortRaises(new_items) ==
    \E i, j \in 1..Len(new_items) :
        new_items[i].publish_date_obj = 0 /\ new_items[j].publish_date_obj # 0

RECURSIVE SortedInsert(_, _)
SortedInsert(sorted, x) ==
    IF sorted = <<>> THEN <<x>>
    ELSE IF sorted[Len(sorted)].publish_date_obj <= x.publish_date_obj
         THEN Append(sorted, x)
         ELSE Append(SortedInsert(SubSeq(sorted, 1, Len(sorted) - 1), x),
                     sorted[Len(sorted)])

\* list.sort is stable.
RECURSIVE SortNew(_)
SortNew(new_items) ==
    IF new_items = <<>> THEN <<>>
    ELSE SortedInsert(SortNew(SubSeq(new_items, 1, Len(new_items) - 1)),
                      new_items[Len(new_items)])

\* Lines 133-134
DocketId(s, num) == docket_prefix(s) \o <<"-">> \o Str(num)

\* The revision id without its suffix.
DocId_Bare(docket) == docket

\* Line 134: doc_id = f"{docket_id}-1".
DocId(docket) == docket \o <<"-", "1">>

\* Lines 132-141: the k-th sorted new item gets next_docket_num + k - 1.
AssignNew(sorted, s, next_docket_num) ==
    [k \in 1..Len(sorted) |->
        [sorted[k] EXCEPT !.docket_id = DocketId(s, next_docket_num + k - 1),
                          !.doc_id = DocId(DocketId(s, next_docket_num + k - 1)),
                          !.is_new = TRUE, !.needs_update = FALSE]]

\* ---------------------------------------------------------------- actions
\* The run's locals die with it; its result and its history stay.
Finish(run, status, count) ==
    [run EXCEPT !.pc = "done", !.status = status, !.count = count,
                !.items = <<>>, !.idx = 1, !.max_num = 0, !.existing_items = <<>>,
                !.new_items = <<>>, !.processed = <<>>, !.new_df = <<>>,
                !.update_df = <<>>]

\* process_country, lines 36-46, and the first loop of assign_document_ids:
\* the scrape returns a batch; an empty one ends the run with count 0, and
\* a KeyError of the first loop is caught by process_country (lines 60-63).
\* A scrape that raises (line 44) is caught there too.
Begin(r, sources, batches) ==
    /\ runs[r].pc = "idle"
    /\ \E s \in sources, b \in batches, scraped \in Outcomes :
          /\ runs' = [runs EXCEPT ![r] =
                        IF ~scraped
                        THEN Finish([@ EXCEPT !.source = s, !.error = "ScrapeError"], "failed", 0)
                        ELSE IF b = <<>>
                        THEN Finish([@ EXCEPT !.source = s], "finished", 0)
                        ELSE IF \E i \in 1..Len(b) : hash_input_raises(b[i])
                        THEN Finish([@ EXCEPT !.source = s, !.error = "KeyError"], "failed", 0)
                        ELSE [@ EXCEPT !.pc = "max", !.source = s,
                                       !.items = [i \in 1..Len(b) |-> Normalize(b[i], i)]]]
          /\ faults' = Charge(scraped)
    /\ UNCHANGED <<store, allocated, main>>

\* Runs that nothing tells apart start in the order of their ids.
ScrapeOf(r, sources, batches) ==
    /\ \A q \in RunIds : q < r => runs[q].pc # "idle"
    /\ Begin(r, sources, batches)

ScrapeFrom(r, batches) == ScrapeOf(r, Sources, batches)

Scrape(r) == ScrapeFrom(r, Batches)

\* assign_document_ids, lines 74-76.
GetMax(r) ==
    /\ runs[r].pc = "max"
    /\ \E success \in Outcomes :
          /\ runs' = [runs EXCEPT ![r] =
                        [@ EXCEPT !.pc = "lookup", !.idx = 1,
                                  !.max_num = get_max_docket_number(store, runs[r].source, success),
                                  !.max_failed = ~success,
                                  !.max_hidden = IF success THEN 0
                                                 ELSE get_max_docket_number(store, runs[r].source, TRUE)]]
          /\ faults' = Charge(success)
    /\ UNCHANGED <<store, allocated, main>>

\* The return of line 143 with its operands exchanged: new_items +
\* existing_items.
EndAssign_NewFirst(run) ==
    IF SortRaises(run.new_items)
    THEN Finish([run EXCEPT !.error = "TypeError"], "failed", 0)
    ELSE [run EXCEPT !.pc = "s3",
                     !.classified = AssignNew(SortNew(run.new_items), run.source, run.max_num + 1)
                               \o run.existing_items,
                     !.todo = {run.new_items[k].n : k \in 1..Len(run.new_items)}
                              \cup {run.existing_items[k].n :
                                       k \in {j \in 1..Len(run.existing_items) :
                                                 run.existing_items[j].needs_update}},
                     !.new_items = AssignNew(SortNew(@), run.source, run.max_num + 1),
                     !.items = AssignNew(SortNew(run.new_items), run.source, run.max_num + 1)
                               \o run.existing_items]

\* Lines 128-143, once the lookup loop has ended: sort the new items, give
\* them docket ids and return existing_items + new_items; a TypeError of the
\* sort leaves assign_document_ids and is caught by process_country.
EndAssign(run) ==
    IF SortRaises(run.new_items)
    THEN Finish([run EXCEPT !.error = "TypeError"], "failed", 0)
    ELSE [run EXCEPT !.pc = "s3",
                     !.classified = run.existing_items
                               \o AssignNew(SortNew(run.new_items), run.source, run.max_num + 1),
                     !.todo = {run.new_items[k].n : k \in 1..Len(run.new_items)}
                              \cup {run.existing_items[k].n :
                                       k \in {j \in 1..Len(run.existing_items) :
                                                 run.existing_items[j].needs_update}},
                     !.new_items = AssignNew(SortNew(@), run.source, run.max_num + 1),
                     !.items = run.existing_items
                               \o AssignNew(SortNew(run.new_items), run.source, run.max_num + 1)]

Allocations(r, run) ==
    IF run.pc = "s3"
    THEN {[run |-> r, source |-> run.source, docket_id |-> run.new_items[k].docket_id,
           doc_hash |-> run.new_items[k].doc_hash] : k \in 1..Len(run.new_items)}
    ELSE {}

\* Stands for `old` where the lookup gave no row: it is not read.
NoRow == [docket_id |-> NoText, doc_id |-> NoText, publish_date |-> None,
          modifyDate |-> None, agency_id |-> 0]

\* One pass of the loop of lines 81-126: the fingerprint lookup of item idx
\* and its classification; after the last item, lines 128-143.
LookupStep(run, success, old) ==
    LET item == run.items[run.idx]
        isNew == ~success \/ RowsByHash(store, item.doc_hash) = {}
        next == [run EXCEPT
                   !.idx = @ + 1,
                   !.new_items = IF isNew THEN Append(@, item) ELSE @,
                   !.existing_items = IF isNew THEN @ ELSE Append(@, TagExisting(item, old)),
                   !.lookup_failed = IF success THEN @ ELSE @ \cup {item.n}]
    IN IF run.idx = Len(run.items) THEN EndAssign(next) ELSE next

Lookup(r) ==
    /\ runs[r].pc = "lookup"
    /\ \E success \in Outcomes :
          LET rows == RowsByHash(store, runs[r].items[runs[r].idx].doc_hash)
          IN \E old \in (IF success /\ rows # {} THEN rows ELSE {NoRow}) :
                /\ runs' = [runs EXCEPT ![r] = LookupStep(@, success, old)]
                /\ faults' = Charge(success)
                /\ allocated' = allocated \cup Allocations(r, runs'[r])
    /\ UNCHANGED <<store, main>>

\* ------------------------------------------------------- upload and save
\* s3_manager.py lines 159-166: the key is built from the source's folder
\* and the item's ids.
s3_key(s, item) == <<s3_country_folder(s), "/">> \o item.docket_id \o <<"/">> \o item.doc_id

\* The skip of lines 136-139 left out: every item is taken.
ToUpload_All(items) == 1..Len(items)

\* The items process_documents neither skips as unchanged (lines 136-139)
\* nor drops: their positions in items.
ToUpload(items) == {i \in 1..Len(items) : items[i].is_new \/ items[i].needs_update}

RECURSIVE SelectIdx(_, _, _)
SelectIdx(seq, keep, i) ==
    IF i > Len(seq) THEN <<>>
    ELSE (IF i \in keep THEN <<seq[i]>> ELSE <<>>) \o SelectIdx(seq, keep, i + 1)

\* The items process_documents tries to download (lines 141-155).
Attempted(items) == {items[i].n : i \in ToUpload(items)}

\* S3Manager.process_documents: every item to upload whose download and
\* upload succeed is given its aws_key and kept, in order; one whose download
\* fails (line 155) or whose upload raises (line 181) is left out.
process_documents(s, items, failed) ==
    LET kept == SelectIdx(items, ToUpload(items) \ failed, 1)
    IN [k \in 1..Len(kept) |-> [kept[k] EXCEPT !.aws_key = s3_key(s, kept[k])]]

\* prepare_records, lines 151-179: the row of each new or changed item.
Record(s, item) ==
    [docket_id |-> item.docket_id, doc_id |-> item.doc_id, doc_hash |-> item.doc_hash,
     agency_id |-> agency_id(s), title |-> clean_title(item.title),
     publish_date |-> item.publish_date,
     modifyDate |-> item.modify_date, aws_key |-> item.aws_key, n |-> item.n]

prepare_records(s, items) ==
    LET kept == SelectIdx(items, ToUpload(items), 1)
    IN [k \in 1..Len(kept) |-> Record(s, kept[k])]

\* A stored row: the record without the run's own numbering of its items.
Row(rec) == [docket_id |-> rec.docket_id, doc_id |-> rec.doc_id, doc_hash |-> rec.doc_hash,
             agency_id |-> rec.agency_id, title |-> rec.title,
             publish_date |-> rec.publish_date,
             modifyDate |-> rec.modifyDate, aws_key |-> rec.aws_key]

Ns(df) == {df[k].n : k \in 1..Len(df)}

\* The fingerprints of the new items whose download or upload failed.
DroppedNew(items, failed) == {items[i].doc_hash : i \in {j \in failed : items[j].is_new}}

\* process_country lines 54-59 up to the first query of save_documents:
\* process_documents, then save_documents' early returns (lines 186-193).
ProcessDocuments(r) ==
    /\ runs[r].pc = "s3"
    /\ \E failed \in SUBSET ToUpload(runs[r].items) :
          /\ faults + Cardinality(failed) <= MaxFaults
          /\ faults' = faults + Cardinality(failed)
          /\ LET processed == process_documents(runs[r].source, runs[r].items, failed)
             IN runs' = [runs EXCEPT ![r] =
                           IF prepare_records(@.source, processed) = <<>>
                           THEN Finish([@ EXCEPT !.processed = processed,
                                                 !.attempted = Attempted(runs[r].items),
                                                 !.uploaded = Ns(processed),
                                                 !.dropped_new = DroppedNew(runs[r].items, failed)],
                                       "finished", Len(processed))
                           ELSE [@ EXCEPT !.pc = "exists", !.processed = processed,
                                          !.attempted = Attempted(runs[r].items),
                                          !.uploaded = Ns(processed),
                                          !.dropped_new = DroppedNew(runs[r].items, failed)]]
    /\ UNCHANGED <<store, allocated, main>>

\* save_documents lines 195-208: which prepared records already have a row
\* with their doc_id.  A failed query leaves existing = None: every record
\* is taken as not existing.
SaveNext(run) ==
    IF run.new_df # <<>> /\ run.pc = "exists" THEN [run EXCEPT !.pc = "insert"]
    ELSE IF run.update_df # <<>> THEN [run EXCEPT !.pc = "update", !.idx = 1]
    ELSE Finish(run, "finished", Len(run.processed))

Exists(r) ==
    /\ runs[r].pc = "exists"
    /\ \E success \in Outcomes :
          LET records == prepare_records(runs[r].source, runs[r].processed)
              existing_ids == IF success
                              THEN ExistingIds(store, {records[k].doc_id : k \in 1..Len(records)})
                              ELSE {}
              isNewRec == {k \in 1..Len(records) : records[k].doc_id \notin existing_ids}
          IN /\ runs' = [runs EXCEPT ![r] =
                           SaveNext([@ EXCEPT
                              !.new_df = SelectIdx(records, isNewRec, 1),
                              !.update_df = SelectIdx(records, (1..Len(records)) \ isNewRec, 1)])]
             /\ faults' = Charge(success)
    /\ UNCHANGED <<store, allocated, main>>

RowsOf(df) == [k \in 1..Len(df) |-> Row(df[k])]

\* What a write leaves in the run's history.
Wrote(run, success, ns) ==
    [run EXCEPT !.write_failed = @ \/ ~success,
                !.wrote_after_failure = @ \/ (run.write_failed /\ success /\ ns # {}),
                !.persisted = IF success THEN @ \cup ns ELSE @]

\* Lines 210-216: the bulk insert of new_df, one transaction; a failure is
\* logged and save_documents goes on.
Insert(r) ==
    /\ runs[r].pc = "insert"
    /\ \E success \in Outcomes :
          /\ store' = IF success THEN store \o RowsOf(runs[r].new_df) ELSE store
          /\ runs' = [runs EXCEPT ![r] =
                        SaveNext(Wrote([@ EXCEPT !.pc = "inserted"], success, Ns(@.new_df)))]
          /\ faults' = Charge(success)
    /\ UNCHANGED <<allocated, main>>

\* UPDATE ... SET aws_key, s3_link_url, modifyDate WHERE doc_id = :doc_id
UpdateRows(st, rec) ==
    [i \in 1..Len(st) |->
        IF st[i].doc_id = rec.doc_id
        THEN [st[i] EXCEPT !.aws_key = rec.aws_key, !.modifyDate = rec.modifyDate]
        ELSE st[i]]

\* Lines 234-238: the stored row already holds the record's values.
SameAsStored(old, rec) == old.aws_key = rec.aws_key /\ old.modifyDate = rec.modifyDate

UpdateNext(run) ==
    IF run.idx = Len(run.update_df)
    THEN Finish(run, "finished", Len(run.processed))
    ELSE [run EXCEPT !.idx = @ + 1]

\* One pass of the loop of lines 222-253 for record idx of update_df: the
\* check query, then, unless the stored row is found to hold the same
\* values, the UPDATE.  Neither result is looked at (line 252).
Update(r) ==
    /\ runs[r].pc = "update"
    /\ LET rec == runs[r].update_df[runs[r].idx]
           rows == RowsById(store, rec.doc_id)
       IN \E checked \in Outcomes :
            \E old \in (IF checked /\ rows # {} THEN rows ELSE {Row(rec)}) :
               IF checked /\ rows # {} /\ SameAsStored(old, rec)
               THEN /\ runs' = [runs EXCEPT ![r] =
                                     UpdateNext([@ EXCEPT !.persisted = @ \cup {rec.n}])]
                    /\ faults' = Charge(checked)
                    /\ UNCHANGED store
               ELSE \E success \in {TRUE} \cup (IF Charge(checked) < MaxFaults
                                                THEN {FALSE} ELSE {}) :
                       /\ store' = IF success THEN UpdateRows(store, rec) ELSE store
                       /\ runs' = [runs EXCEPT ![r] = UpdateNext(Wrote(@, success, {rec.n}))]
                       /\ faults' = Charge(checked) + (IF success THEN 0 ELSE 1)
    /\ UNCHANGED <<allocated, main>>

Next ==
    \E r \in RunIds :
        \/ Scrape(r)
        \/ GetMax(r)
        \/ Lookup(r)
        \/ ProcessDocuments(r)
        \/ Exists(r)
        \/ Insert(r)
        \/ Update(r)

Spec == Init /\ [][Next]_vars

\* Runs that never overlap: the next one starts when the last has ended.
ScrapeSeq(r) ==
    /\ \A q \in RunIds : runs[q].pc \in {"idle", "done"}
    /\ Scrape(r)

NextSeq ==
    \E r \in RunIds :
        \/ ScrapeSeq(r)
        \/ GetMax(r)
        \/ Lookup(r)
        \/ ProcessDocuments(r)
        \/ Exists(r)
        \/ Insert(r)
        \/ Update(r)

SpecSeq == Init /\ [][NextSeq]_vars

\* ------------------------------------------------- one run, a stored past
\* The table as a complete, failure-free earlier run of source s on batch b
\* leaves it, starting from the empty table: every descriptor is new.
StoreAfter(s, b) ==
    LET items == [i \in 1..Len(b) |-> Normalize(b[i], i)]
    IN IF SortRaises(items) THEN <<>>
       ELSE RowsOf(prepare_records(s,
                process_documents(s, AssignNew(SortNew(items), s, 1), {})))

InitStores == {StoreAfter(s, b) : s \in Sources,
                                  b \in {c \in Batches : Len(c) <= MaxPrior}}

InitOne ==
    /\ store \in InitStores
    /\ runs = [r \in RunIds |-> IdleRun]
    /\ faults = 0
    /\ allocated = {}
    /\ main = IdleMain

NextOne ==
    \E r \in {1} :
        \/ Scrape(r)
        \/ GetMax(r)
        \/ Lookup(r)
        \/ ProcessDocuments(r)
        \/ Exists(r)
        \/ Insert(r)
        \/ Update(r)

\* One run of process_country against the table an earlier run left.
SpecOne == InitOne /\ [][NextOne]_vars

\* ------------------------------------------- the classify step, twice
\* assign_document_ids called again on the list it has just returned (the
\* same dicts, as the first call left them), the table untouched between.
AssignAgain(r) ==
    /\ runs[r].pc = "s3"
    /\ runs[r].first = <<>>
    /\ runs' = [runs EXCEPT ![r] =
                  [@ EXCEPT !.pc = "max", !.first = runs[r].items, !.idx = 1,
                            !.items = [i \in 1..Len(runs[r].items) |->
                                          Normalize(runs[r].items[i], runs[r].items[i].n)],
                            !.existing_items = <<>>, !.new_items = <<>>]]
    /\ UNCHANGED <<store, faults, allocated, main>>

NextTwice ==
    \E r \in {1} :
        \/ Scrape(r)
        \/ GetMax(r)
        \/ Lookup(r)
        \/ AssignAgain(r)
        \/ ProcessDocuments(r)
        \/ Exists(r)
        \/ Insert(r)
        \/ Update(r)

\* One run that classifies its batch twice before it uploads and saves.
SpecTwice == InitOne /\ [][NextTwice]_vars

\* ------------------------------------------- a table with other writers
\* Docket ids the shared table may hold besides the pipeline's own: plain
\* ones, ones whose suffix is not a number, and ones of a longer prefix.
DocketShapes ==
    {<<"B", "E", "-", "1">>, <<"B", "E", "-", "7">>, <<"B", "E", "-", "1", "2", "a">>,
     <<"B", "E", "-", "x">>, <<"B", "E", "-", "2", "-", "7">>, <<"C", "L", "-", "5">>}

ForeignRow(docket, agency) ==
    [docket_id |-> docket, doc_id |-> DocId(docket), doc_hash |-> md5(<<"f">> \o docket),
     agency_id |-> agency, title |-> <<"f">>, publish_date |-> None,
     modifyDate |-> None, aws_key |-> NoText]

ForeignRows == {ForeignRow(d, a) : d \in DocketShapes, a \in {agency_id(s) : s \in Sources}}

InitMax ==
    /\ store \in UNION {[1..n -> ForeignRows] : n \in 0..MaxForeign}
    /\ runs = [r \in RunIds |-> IdleRun]
    /\ faults = 0
    /\ allocated = {}
    /\ main = IdleMain

\* A scrape that returns no descriptor or one.
ShortBatches == UNION {[1..n -> Descriptors] : n \in {0, 1}}

ScrapeMax(r) == ScrapeFrom(r, ShortBatches)

NextMax ==
    \E r \in {1} :
        \/ ScrapeMax(r)
        \/ GetMax(r)
        \/ Lookup(r)
        \/ ProcessDocuments(r)
        \/ Exists(r)
        \/ Insert(r)
        \/ Update(r)

\* One run on one descriptor against a table that holds rows with docket
\* ids of every shape.
SpecMax == InitMax /\ [][NextMax]_vars

\* ------------------------------------- descriptors by fingerprint input
\* Titles that differ in a disallowed character or in the amount of
\* whitespace only.
HashTitles == {<<"a", " ", "b">>, <<"a", " ", " ", "b">>, <<"a", ":", " ", "b">>}

\* Descriptors with and without origin token, undated; one without the keys
\* atom_id, title and url, one with all three empty.
HashDescriptors ==
    {[atom_id |-> a, title |-> t, url |-> <<"p">>, publish_date |-> None,
      modify_date |-> None] : a \in {<<>>, <<"u", "1">>}, t \in HashTitles}
    \cup {[atom_id |-> <<>>, title |-> x, url |-> x, publish_date |-> None,
           modify_date |-> None] : x \in {Absent, <<>>}}

HashBatches == UNION {[1..n -> HashDescriptors] : n \in 0..MaxBatch}

InitHash ==
    /\ store \in {<<>>} \cup {StoreAfter(s, <<d>>) :
                                s \in Sources,
                                d \in {e \in HashDescriptors : ~hash_input_raises(e)}}
    /\ runs = [r \in RunIds |-> IdleRun]
    /\ faults = 0
    /\ allocated = {}
    /\ main = IdleMain

ScrapeHash(r) == ScrapeFrom(r, HashBatches)

NextHash ==
    \E r \in {1} :
        \/ ScrapeHash(r)
        \/ GetMax(r)
        \/ Lookup(r)
        \/ ProcessDocuments(r)
        \/ Exists(r)
        \/ Insert(r)
        \/ Update(r)

\* One run on descriptors that differ in their fingerprint inputs.
SpecHash == InitHash /\ [][NextHash]_vars

\* ------------------------------------------- batches with malformed dates
\* Descriptors whose declared dates are absent, valid or malformed.
MalformedDescriptors ==
    {[atom_id |-> a, title |-> <<"t">> \o a, url |-> <<"p">>,
      publish_date |-> x, modify_date |-> y] :
        a \in {<<"u", "1">>, <<"u", "2">>}, x \in {None, "2024-01-01", "bad"},
        y \in {None, "bad"}}

MalformedBatches == UNION {[1..n -> MalformedDescriptors] : n \in 0..MaxBatch}

InitMalformed ==
    /\ store \in {<<>>} \cup {StoreAfter(s, <<d>>) : s \in Sources, d \in MalformedDescriptors}
    /\ runs = [r \in RunIds |-> IdleRun]
    /\ faults = 0
    /\ allocated = {}
    /\ main = IdleMain

ScrapeMalformed(r) == ScrapeFrom(r, MalformedBatches)

NextMalformed ==
    \E r \in {1} :
        \/ ScrapeMalformed(r)
        \/ GetMax(r)
        \/ Lookup(r)
        \/ ProcessDocuments(r)
        \/ Exists(r)
        \/ Insert(r)
        \/ Update(r)

\* One run on a batch whose declared dates may be malformed.
SpecMalformed == InitMalformed /\ [][NextMalformed]_vars

\* ---------------------------------------- one document, every date shape
SingleBatches == {<<d>> : d \in DatedDescriptors}

InitDates ==
    /\ store \in {StoreAfter(s, b) : s \in Sources, b \in SingleBatches}
    /\ runs = [r \in RunIds |-> IdleRun]
    /\ faults = 0
    /\ allocated = {}
    /\ main = IdleMain

DatedBatches == UNION {[1..n -> DatedDescriptors] : n \in {0, 1}}

ScrapeDates(r) == ScrapeFrom(r, DatedBatches)

NextDates ==
    \E r \in {1} :
        \/ ScrapeDates(r)
        \/ GetMax(r)
        \/ Lookup(r)
        \/ ProcessDocuments(r)
        \/ Exists(r)
        \/ Insert(r)
        \/ Update(r)

\* One run on one descriptor, against the row an earlier run stored for a
\* descriptor, the declared dates of both ranging over DateValues.
SpecDates == InitDates /\ [][NextDates]_vars

\* ------------------------------------- one document, run after run
\* One document of one source, declared with every pair of two days or none.
RepeatDates == {None, "2024-01-01", "2024-03-01"}

RepeatDescriptors ==
    {[atom_id |-> <<"u", "1">>, title |-> <<"t", "u", "1">>, url |-> <<"p">>,
      publish_date |-> x, modify_date |-> y] : x \in RepeatDates, y \in RepeatDates}

RepeatBatches == UNION {[1..n -> RepeatDescriptors] : n \in {0, 1}}

InitRepeat ==
    /\ store \in {StoreAfter("BE", b) : b \in RepeatBatches}
    /\ runs = [r \in RunIds |-> IdleRun]
    /\ faults = 0
    /\ allocated = {}
    /\ main = IdleMain

\* The next execution of the pipeline starts when the last has ended.
ScrapeRepeat(r) ==
    /\ \A q \in RunIds : runs[q].pc \in {"idle", "done"}
    /\ ScrapeOf(r, {"BE"}, RepeatBatches)

NextRepeat ==
    \E r \in RunIds :
        \/ ScrapeRepeat(r)
        \/ GetMax(r)
        \/ Lookup(r)
        \/ ProcessDocuments(r)
        \/ Exists(r)
        \/ Insert(r)
        \/ Update(r)

\* Executions of the pipeline one after another, on one document of one
\* source whose declared dates change from one to the next.
SpecRepeat == InitRepeat /\ [][NextRepeat]_vars

\* ------------------------------------------------- main and its pool
\* countries.json as main reads it: a dict, so one entry per code, in order.
countries == <<"BE", "CL">>

Tasks == 1..Len(countries)

\* Line 81: the task of entry r is process_country(code of entry r, ...).
TaskSource_First(r) == countries[1]

TaskSource(r) == countries[r]

\* Lines 79-83: the comprehension submits one task per entry, in order; the
\* pool has a thread for each (line 76), so a task may start at once.
SubmitTask ==
    /\ main.pc = "start"
    /\ main.submitted < Len(countries)
    /\ main' = [main EXCEPT !.submitted = @ + 1,
                            !.pc = IF main.submitted + 1 = Len(countries)
                                   THEN "collect" ELSE "start"]
    /\ UNCHANGED <<store, runs, faults, allocated>>

\* A pool thread starts a submitted task: process_country of its entry.
ScrapeMain(r) ==
    /\ r <= main.submitted
    /\ Begin(r, {TaskSource(r)}, ShortBatches)

\* Line 84: as_completed yields a future once it is done, however it ended.
Completed(r) == runs[r].pc = "done"

\* Lines 85-91: results[code] = count, the count process_country returned
\* (0 from its except clause).
Collect(r) ==
    /\ main.pc = "collect"
    /\ r \notin main.collected
    /\ Completed(r)
    /\ main' = [main EXCEPT
                  !.results = {e \in @ : e.code # TaskSource(r)}
                                  \cup {[code |-> TaskSource(r), count |-> runs[r].count]},
                  !.collected = @ \cup {r},
                  !.pc = IF main.collected \cup {r} = Tasks THEN "summary" ELSE "collect"]
    /\ UNCHANGED <<store, runs, faults, allocated>>

RECURSIVE Total(_)
\* Line 94: sum(results.values()).
Total(results) ==
    IF results = {} THEN 0
    ELSE LET e == CHOOSE x \in results : TRUE
         IN e.count + Total(results \ {e})

\* Lines 94-96: the summary.
Summary ==
    /\ main.pc = "summary"
    /\ main' = [main EXCEPT !.pc = "end", !.total = Total(main.results)]
    /\ UNCHANGED <<store, runs, faults, allocated>>

NextMain ==
    \/ SubmitTask
    \/ \E r \in Tasks :
          \/ ScrapeMain(r)
          \/ GetMax(r)
          \/ Lookup(r)
          \/ ProcessDocuments(r)
          \/ Exists(r)
          \/ Insert(r)
          \/ Update(r)
          \/ Collect(r)
    \/ Summary

\* One execution of main: every pool thread and main itself keep running
\* (the pool has as many threads as tasks, none waits for another).
SpecMain == Init /\ [][NextMain]_vars /\ WF_vars(NextMain)

\* ------------------------------------------------------------- properties
\* The number a docket id of source s carries after its prefix.
NumberOf(s, docket) == CastUnsigned(Substring(docket, Len(docket_prefix(s)) + 2))

\* No docket id was given to two different documents.
NoSharedAllocation ==
    \A a, b \in allocated : a.docket_id = b.docket_id => a.doc_hash = b.doc_hash

\* No row holds, and no allocation names, a docket id held by the row of
\* another document.
NoSharedRow ==
    /\ \A i, j \in 1..Len(store) :
          store[i].docket_id = store[j].docket_id => store[i].doc_hash = store[j].doc_hash
    /\ \A a \in allocated : \A i \in 1..Len(store) :
          store[i].docket_id = a.docket_id => store[i].doc_hash = a.doc_hash

\* C1 (as claimed): across runs of a source that follow one another, failed
\* and retried ones included, no document receives a docket number that the
\* stored row of another document holds, and no two rows of different
\* documents hold the same docket id.
C1_DocketsNeverShared == NoSharedRow

\* C2 (as claimed): a descriptor whose fingerprint lookup failed is not
\* classified as new and gets no newly allocated docket id.
C2_FailedLookupIsNotNew ==
    \A r \in RunIds :
        /\ \A k \in 1..Len(runs[r].new_items) :
              runs[r].new_items[k].n \notin runs[r].lookup_failed
        /\ \A k \in 1..Len(runs[r].items) :
              runs[r].items[k].is_new => runs[r].items[k].n \notin runs[r].lookup_failed

\* C3 (as claimed): when the max-sequence query fails while docket ids of
\* the prefix are stored, the run allocates no docket id and ends as failed.
C3_FailedMaxQueryAborts ==
    \A r \in RunIds :
        (runs[r].max_failed /\ runs[r].max_hidden > 0) =>
            /\ \A a \in allocated : a.run # r
            /\ runs[r].pc \notin {"s3", "exists", "insert", "update"}
            /\ runs[r].pc = "done" => runs[r].status = "failed"

\* The known (already stored) descriptors a run has classified so far.
KnownItems(r) ==
    {runs[r].existing_items[k] : k \in 1..Len(runs[r].existing_items)}
    \cup {runs[r].items[k] : k \in {j \in 1..Len(runs[r].items) : runs[r].items[j].known}}

Present(x) == Dt(x) # 0

SameDates(item) ==
    /\ Dt(item.old_publish_date) = Dt(item.publish_date)
    /\ Dt(item.old_modifyDate) = Dt(item.modify_date)

C5_NewItemsNumberedInDateOrder ==
    \A r \in RunIds :
        /\ runs[r].error # "TypeError"
        /\ runs[r].pc = "s3" =>
             \A k \in 1..Len(runs[r].new_items) :
                /\ runs[r].new_items[k].docket_id = DocketId(runs[r].source, runs[r].max_num + k)
                /\ k > 1 => runs[r].new_items[k - 1].publish_date_obj
                               <= runs[r].new_items[k].publish_date_obj

\* C6 (as claimed): when assign_document_ids returns, the docket numbers of
\* its new descriptors increase strictly in assignment order and are greater
\* than every docket number stored for the prefix and agency.
C6_NewNumbersAboveStored ==
    \A r \in RunIds :
        runs[r].pc = "s3" =>
            \A k \in 1..Len(runs[r].new_items) :
                /\ \A m \in MaxQueryValues(store, runs[r].source) :
                      NumberOf(runs[r].source, runs[r].new_items[k].docket_id) > m
                /\ k > 1 => NumberOf(runs[r].source, runs[r].new_items[k - 1].docket_id)
                               < NumberOf(runs[r].source, runs[r].new_items[k].docket_id)

\* C7 (as claimed): runs of one prefix that interleave, none of whose calls
\* fails, never give one docket number to two different documents.
C7_ConcurrentRunsNeverCollide == faults = 0 => NoSharedAllocation

\* C8 (as claimed): runs of different sources, none of whose calls fails, do
\* not meet: no docket id is produced by two sources, and a source
\* classifies a descriptor as known only against a row of its own, as it
\* would running alone.
C8_SourcesIndependent ==
    faults = 0 =>
        /\ \A a, b \in allocated : a.source # b.source => a.docket_id # b.docket_id
        /\ \A r \in RunIds : \A item \in KnownItems(r) :
              item.old_agency_id = agency_id(runs[r].source)

\* C9 (as claimed): when a run has ended, either every new or changed
\* descriptor of its batch is persisted or none is.
C9_BatchAllOrNothing ==
    \A r \in RunIds :
        runs[r].pc = "done" => (runs[r].persisted = {} \/ runs[r].persisted = runs[r].todo)

\* C10 (as claimed): once an insert or update of save_documents has failed,
\* the run makes no further write and ends as failed.
C10_WriteFailurePropagates ==
    \A r \in RunIds :
        runs[r].write_failed =>
            /\ ~runs[r].wrote_after_failure
            /\ runs[r].pc = "done" => runs[r].status = "failed"

\* An item is tagged unchanged.
Unchanged(item) == ~item.is_new /\ ~item.needs_update

\* C11: the items tagged unchanged are skipped by the persistence stage:
\* process_documents tries no download for them and keeps none of them,
\* no record is prepared and no row written for them, and prepare_records
\* keeps every new or changed item it is given, so that it prepares as many
\* records as it is given new or changed items.
C11_UnchangedSkipped ==
    \A r \in RunIds :
        /\ runs[r].attempted \subseteq runs[r].todo
        /\ runs[r].persisted \subseteq runs[r].todo
        /\ \A k \in 1..Len(runs[r].processed) : ~Unchanged(runs[r].processed[k])
        /\ Ns(runs[r].new_df) \cup Ns(runs[r].update_df) \subseteq runs[r].todo
        /\ Len(prepare_records(runs[r].source, runs[r].processed))
              = Cardinality({k \in 1..Len(runs[r].processed) :
                                ~Unchanged(runs[r].processed[k])})
        /\ Len(prepare_records(runs[r].source, runs[r].items))
              = Cardinality({k \in 1..Len(runs[r].items) : ~Unchanged(runs[r].items[k])})

\* C11 witness: a batch with an unchanged item and a new or changed one has
\* passed process_documents and prepare_records.
C11_Witness ==
    \E r \in RunIds :
        /\ faults = 0
        /\ runs[r].pc \in {"insert", "update"}
        /\ \E k \in 1..Len(runs[r].items) : Unchanged(runs[r].items[k])
        /\ runs[r].processed # <<>>

\* C12 (as claimed): when assign_document_ids is called a second time on
\* the same descriptors, the table untouched in between, the second call
\* completes as the first did, gives every descriptor the classification
\* the first call gave it, and tags no descriptor new whose fingerprint is
\* stored.
C12_ClassifyTwiceSame ==
    \A r \in RunIds :
        runs[r].first # <<>> =>
            /\ runs[r].error = "none"
            /\ runs[r].pc = "s3" =>
                  /\ \A i \in 1..Len(runs[r].items), j \in 1..Len(runs[r].first) :
                        runs[r].items[i].n = runs[r].first[j].n =>
                            /\ runs[r].items[i].is_new = runs[r].first[j].is_new
                            /\ runs[r].items[i].needs_update = runs[r].first[j].needs_update
                  /\ \A i \in 1..Len(runs[r].items) :
                        RowsByHash(store, runs[r].items[i].doc_hash) # {}
                            => ~runs[r].items[i].is_new

\* C13 (as claimed): the table never holds two rows with the same doc_hash,
\* whatever the batches of the runs (here: even when no call fails).
C13_OneRowPerFingerprint ==
    faults = 0 =>
        \A i, j \in 1..Len(store) : store[i].doc_hash = store[j].doc_hash => i = j

\* assign_document_ids has returned to every descriptor whose fingerprint is
\* stored the docket id and the revision id of a stored row of it.
StoredIdsReturned ==
    \A r \in RunIds :
        runs[r].pc = "s3" =>
            \A i \in 1..Len(runs[r].items) :
                RowsByHash(store, runs[r].items[i].doc_hash) # {} =>
                    \E row \in RowsByHash(store, runs[r].items[i].doc_hash) :
                        /\ runs[r].items[i].docket_id = row.docket_id
                        /\ runs[r].items[i].doc_id = row.doc_id

\* A step leaves the docket_id, doc_id and doc_hash of every row as they are.
RowIdsKept ==
    \A i \in 1..Len(store) :
        /\ i <= Len(store')
        /\ store'[i].docket_id = store[i].docket_id
        /\ store'[i].doc_id = store[i].doc_id
        /\ store'[i].doc_hash = store[i].doc_hash

\* C14 (as claimed): once a document has a row, every later call of
\* assign_document_ids returns the stored docket_id and doc_id for its
\* fingerprint, and no insert or update changes the docket_id, doc_id or
\* doc_hash of a row.
C14_IdsNeverChange == [](StoredIdsReturned) /\ [][RowIdsKept]_vars

\* C15 (as claimed): the table never holds two rows with the same doc_id,
\* also after a run whose existence query failed.
C15_OneRowPerDocId ==
    \A i, j \in 1..Len(store) : store[i].doc_id = store[j].doc_id => i = j

\* The docket numbers the claims speak of: the N of the rows of source s's
\* agency whose docket id is exactly PREFIX-N.
MaxSuffix == 20

PlainNumbers(st, s) ==
    {n \in 0..MaxSuffix :
        \E i \in 1..Len(st) : st[i].agency_id = agency_id(s) /\ st[i].docket_id = DocketId(s, n)}

MaxPlain(st, s) == IF PlainNumbers(st, s) = {} THEN 0 ELSE Max(PlainNumbers(st, s))

\* A row of source s's prefix and agency whose suffix is not a number.
NonNumericRows(st, s) ==
    {i \in 1..Len(st) :
        /\ st[i].agency_id = agency_id(s)
        /\ StartsWith(st[i].docket_id, docket_prefix(s) \o <<"-">>)
        /\ \A n \in 0..MaxSuffix : st[i].docket_id # DocketId(s, n)}

\* The run has just got the result of get_max_docket_number.
GotMax(r) == runs[r].pc = "lookup" /\ runs[r].idx = 1

\* C16 (as claimed): get_max_docket_number returns the greatest N of the
\* stored docket ids PREFIX-N of the source's prefix and agency, 0 when
\* there is none; docket ids of a longer prefix do not count.
C16_MaxIsGreatestSuffix ==
    \A r \in RunIds :
        GotMax(r) => runs[r].max_num = MaxPlain(store, runs[r].source)

\* C17 (as claimed): when rows of the prefix have non-numeric suffixes and
\* the query succeeds, get_max_docket_number returns the maximum over the
\* rows with purely numeric suffixes only, 0 if there are none.
C17_NonNumericExcluded ==
    \A r \in RunIds :
        (GotMax(r) /\ ~runs[r].max_failed /\ NonNumericRows(store, runs[r].source) # {})
            => runs[r].max_num = MaxPlain(store, runs[r].source)

\* A descriptor gives nothing to fingerprint: no origin token, no title and
\* no url (the keys are not there, or their values are empty).
LacksBoth(d) ==
    d.atom_id = <<>> /\ d.title \in {Absent, <<>>} /\ d.url \in {Absent, <<>>}

\* C18 (as claimed): assign_document_ids does not raise on a descriptor
\* that has neither an origin token nor title and url; it drops it, so that
\* no such descriptor is among the items it goes on to classify.
C18_UnfingerprintableDropped ==
    \A r \in RunIds :
        /\ runs[r].error # "KeyError"
        /\ \A k \in 1..Len(runs[r].items) : ~LacksBoth(runs[r].items[k])

\* The descriptors a run holds.
ItemsOf(r) == {runs[r].items[k] : k \in 1..Len(runs[r].items)}

\* C19: the fingerprint of a descriptor with a non-empty origin token is
\* the digest of the origin token alone, so that two descriptors with the
\* same origin token have the same doc_hash whatever their titles and urls;
\* only without an origin token is it the digest of the sanitized title
\* followed by the url.
C19_FingerprintFromOriginToken ==
    \A r \in RunIds :
        /\ \A x, y \in ItemsOf(r) :
              (x.atom_id # <<>> /\ x.atom_id = y.atom_id) => x.doc_hash = y.doc_hash
        /\ \A x \in ItemsOf(r) :
              IF x.atom_id # <<>> THEN x.doc_hash = md5(x.atom_id)
              ELSE x.doc_hash = md5(clean_title(x.title) \o x.url)

\* C19 witness: a batch holds two descriptors with the same origin token
\* and different titles, and one without origin token.
C19_Witness ==
    \E r \in RunIds :
        /\ \E x, y \in ItemsOf(r) :
              x.atom_id # <<>> /\ x.atom_id = y.atom_id /\ x.title # y.title
                /\ x.doc_hash = y.doc_hash
        /\ runs[r].pc = "lookup"

\* A title without its disallowed characters, its runs of whitespace
\* collapsed to one space, and no whitespace at its ends.
RECURSIVE CollapseRuns(_)
CollapseRuns(t) ==
    IF Len(t) < 2 THEN t
    ELSE IF t[1] \in Whitespace /\ t[2] \in Whitespace THEN CollapseRuns(<<" ">> \o Tail(Tail(t)))
    ELSE IF t[1] \in Whitespace THEN <<" ">> \o CollapseRuns(Tail(t))
    ELSE <<t[1]>> \o CollapseRuns(Tail(t))

Collapsed(t) == Strip(CollapseRuns(SelectSeq(t, LAMBDA c : c \notin DisallowedChars)))

\* C20 (as claimed): two descriptors without origin token, with the same
\* url and with titles that differ only in disallowed characters or in the
\* amount of whitespace, have the same doc_hash.
C20_TitleFormattingSameFingerprint ==
    \A r \in RunIds : \A x, y \in ItemsOf(r) :
        (x.atom_id = <<>> /\ y.atom_id = <<>> /\ x.url = y.url
            /\ Collapsed(x.title) = Collapsed(y.title))
        => x.doc_hash = y.doc_hash

\* A declared date that is a string but names no date.
Malformed(x) == x # None /\ Strptime(x) = 0

AsAbsent(x) == IF Malformed(x) THEN None ELSE x

\* The item is normalized and classified as it would be with its malformed
\* dates absent.
TreatedAsAbsent(item) ==
    LET d == [publish_date |-> AsAbsent(item.publish_date),
              modify_date |-> AsAbsent(item.declared_modify_date)]
    IN /\ item.publish_date_obj = (IF d.publish_date = None THEN 0 ELSE Strptime(d.publish_date))
       /\ Dt(item.modify_date)
            = (IF d.modify_date # None THEN Strptime(d.modify_date)
               ELSE IF d.publish_date # None THEN Strptime(d.publish_date) ELSE 0)
       /\ item.known =>
             (item.needs_update <=>
                ~(/\ Dt(item.old_publish_date) = Dt(d.publish_date)
                  /\ Dt(item.old_modifyDate) = Dt(item.modify_date)
                  /\ Dt(item.modify_date) # 0))

\* A step in which assign_document_ids raises on a batch every descriptor
\* of which declares a publish date.
RaisesOnDeclaredDates ==
    \E r \in RunIds :
        /\ runs[r].pc = "lookup"
        /\ \A k \in 1..Len(runs[r].items) : runs[r].items[k].publish_date # None
        /\ runs'[r].error = "TypeError"

\* C21 (as claimed): a malformed declared date is normalized and classified
\* exactly like an absent one, and assign_document_ids never raises because
\* of it.
C21_MalformedLikeAbsent ==
    /\ [](\A r \in RunIds : \A k \in 1..Len(runs[r].items) :
             TreatedAsAbsent(runs[r].items[k]))
    /\ [][~RaisesOnDeclaredDates]_vars

\* C22: after the normalization, a descriptor that declared no modify date
\* has the modify date of its publish date (none when it has no publish
\* date), and a declared valid modify date is kept, as the date it names.
C22_ModifyDefaultsToPublish ==
    \A r \in RunIds : \A k \in 1..Len(runs[r].items) :
        LET item == runs[r].items[k]
        IN /\ item.declared_modify_date = None =>
                /\ Dt(item.modify_date) = item.publish_date_obj
                /\ item.publish_date = None => item.modify_date = None
           /\ Dt(item.declared_modify_date) # 0 =>
                Dt(item.modify_date) = Dt(item.declared_modify_date)

\* C22 witness: a descriptor that declared a publish date and no modify date
\* has been normalized, and its modify date is its publish date.
C22_Witness ==
    \E r \in RunIds : \E k \in 1..Len(runs[r].items) :
        /\ runs[r].items[k].declared_modify_date = None
        /\ runs[r].items[k].publish_date_obj # 0
        /\ runs[r].items[k].modify_date = runs[r].items[k].publish_date

\* Every task ends, main collects them all and reaches its summary, and the
\* results it sums then hold one entry per source: the count its task
\* returned, 0 for a task that failed.
AllCollected ==
    /\ <>(main.pc = "end")
    /\ [](main.pc \in {"summary", "end"} =>
            \A r \in Tasks :
                /\ runs[r].pc = "done"
                /\ \E e \in main.results : e.code = countries[r]
                /\ \A e \in main.results :
                      e.code = countries[r] =>
                          /\ e.count = runs[r].count
                          /\ runs[r].status = "failed" => e.count = 0)

\* A task's result is the one it has when no other source runs or fails:
\* nothing is stored when main starts, so every descriptor it classifies is
\* new.
ResultsOwn ==
    \A r \in Tasks : \A k \in 1..Len(runs[r].classified) :
        runs[r].classified[k].is_new

\* C23: whatever step of one source's process_country fails, every other
\* task ends with the result it has otherwise, and main has an entry for
\* every source (0 for a failed one) when it prints the summary.
C23_FailuresIsolated == AllCollected /\ []ResultsOwn

\* The runs that have started and not ended.
InFlight(r) == runs[r].pc \notin {"idle", "done"}

\* C24: within one execution of main, no source has two runs: two tasks
\* that have started are of different sources, so no two runs of a source
\* are ever in flight together, and every task started was submitted once.
C24_OneRunPerSource ==
    /\ \A r, q \in RunIds :
          (r # q /\ runs[r].pc # "idle" /\ runs[q].pc # "idle") =>
              runs[r].source # runs[q].source
    /\ \A r \in RunIds : runs[r].pc # "idle" => r <= main.submitted

\* C24 witness: two runs are in flight together, of different sources.
C24_Witness ==
    \E r, q \in Tasks :
        /\ InFlight(r) /\ InFlight(q)
        /\ runs[r].pc = "s3" /\ runs[q].pc = "s3"
        /\ runs[r].source # runs[q].source

\* A descriptor without dates, as classified.
Dateless(item) == item.publish_date = None /\ item.declared_modify_date = None

SameDescriptor(a, b) ==
    /\ a.atom_id = b.atom_id /\ a.title = b.title /\ a.url = b.url
    /\ a.publish_date = b.publish_date
    /\ a.declared_modify_date = b.declared_modify_date

\* C27: when a run has classified a stored document changed, has uploaded
\* it and its save_documents has succeeded, the next run, given the same
\* descriptor with its dates present, classifies it unchanged.
C27_ChangeDetectionConverges ==
    \A q, r \in RunIds :
        \A j \in 1..Len(runs[q].classified), k \in 1..Len(runs[r].classified) :
            LET before == runs[q].classified[j]
                after == runs[r].classified[k]
            IN (/\ r = q + 1
                /\ before.known /\ before.needs_update
                /\ runs[q].status = "finished" /\ ~runs[q].write_failed
                /\ before.n \in runs[q].uploaded
                /\ before.n \in runs[q].persisted
                /\ SameDescriptor(before, after)
                /\ Dt(after.publish_date) # 0 /\ Dt(after.modify_date) # 0
                /\ after.known)
               => ~after.needs_update

\* The text ends with "-1" and is the docket id before that.
RevisionOne(doc_id, docket_id) ==
    /\ Len(doc_id) = Len(docket_id) + 2
    /\ SubSeq(doc_id, 1, Len(docket_id)) = docket_id
    /\ doc_id[Len(doc_id) - 1] = "-" /\ doc_id[Len(doc_id)] = "1"

\* C26: the doc_id of every item assign_document_ids has newly assigned,
\* and of every row of a store that began with such rows only, is its
\* docket id followed by "-1".
C26_RevisionAlwaysOne ==
    /\ \A i \in 1..Len(store) : RevisionOne(store[i].doc_id, store[i].docket_id)
    /\ \A r \in RunIds : \A k \in 1..Len(runs[r].classified) :
          runs[r].classified[k].is_new =>
              RevisionOne(runs[r].classified[k].doc_id, runs[r].classified[k].docket_id)

\* C26 witness: a run has assigned a new record an id and inserted its row
\* next to the row an earlier run left.
C26_Witness ==
    \E r \in RunIds : \E k \in 1..Len(runs[r].classified) :
        /\ runs[r].classified[k].is_new
        /\ runs[r].classified[k].n \in runs[r].persisted
        /\ Len(store) >= 2
        /\ \E i \in 1..Len(store) : store[i].doc_id = runs[r].classified[k].doc_id

\* C28: every record assign_document_ids returns to a source has a docket
\* id that begins with the source's own prefix and "-", whichever source
\* stored the fingerprint before.
C28_OwnPrefix ==
    faults = 0 =>
        \A r \in RunIds : \A k \in 1..Len(runs[r].classified) :
            StartsWith(runs[r].classified[k].docket_id,
                       docket_prefix(runs[r].source) \o <<"-">>)

\* Every row a run wrote belongs to an item it had uploaded before.
WrittenWereUploaded == \A r \in RunIds : runs[r].persisted \subseteq runs[r].uploaded

\* A new item whose download or upload failed in a run is classified new
\* again by the run after it.
DroppedAreNewAgain ==
    \A q, r \in RunIds : \A k \in 1..Len(runs[r].classified) :
        (/\ r = q + 1
         /\ runs[r].classified[k].doc_hash \in runs[q].dropped_new
         /\ runs[r].classified[k].n \notin runs[r].lookup_failed)
        => runs[r].classified[k].is_new

\* C29: a run writes rows only for items it has uploaded; an item whose
\* download or upload failed is not written and, if it was new, is new
\* again for the next run.
C29_UploadBeforePersist == WrittenWereUploaded /\ DroppedAreNewAgain

\* What assign_document_ids returned (out) for the descriptors it was given
\* (inp, in input order): each descriptor once, the known ones first and in
\* input order, then the new ones; every item with its ids, its fingerprint
\* and its two flags, never both set.
ReturnsAll(inp, out) ==
    /\ Len(out) = Len(inp)
    /\ \A i \in 1..Len(inp) :
          Cardinality({k \in 1..Len(out) :
                          /\ out[k].n = inp[i].n
                          /\ out[k].atom_id = inp[i].atom_id
                          /\ out[k].title = inp[i].title
                          /\ out[k].url = inp[i].url
                          /\ out[k].doc_hash = inp[i].doc_hash}) = 1
    /\ \E m \in 0..Len(out) :
          /\ \A k \in 1..m : ~out[k].is_new
          /\ \A k \in (m + 1)..Len(out) : out[k].is_new
          /\ \A j, k \in 1..m : j < k => out[j].n < out[k].n
    /\ \A k \in 1..Len(out) :
          /\ out[k].docket_id # <<>> /\ out[k].doc_id # <<>> /\ out[k].doc_hash # <<>>
          /\ out[k].is_new \in BOOLEAN /\ out[k].needs_update \in BOOLEAN
          /\ ~(out[k].is_new /\ out[k].needs_update)

\* C30: whenever assign_document_ids returns normally, its output holds
\* every input descriptor exactly once, the known ones first in input order,
\* then the new ones, each with docket_id, doc_id, doc_hash, is_new and
\* needs_update, the two flags never both true.
C30_OutputIsInputPartitioned ==
    [][\A r \in RunIds :
          (runs[r].pc = "lookup" /\ runs'[r].pc = "s3") =>
              ReturnsAll(runs[r].items, runs'[r].items)]_vars

\* C30 witness: given a new descriptor and then a known one,
\* assign_document_ids has returned the known one first.
C30_Witness ==
    \E r \in RunIds :
        /\ runs[r].pc = "s3"
        /\ Len(runs[r].items) = 2
        /\ ~runs[r].items[1].is_new /\ runs[r].items[1].n = 2
        /\ runs[r].items[2].is_new /\ runs[r].items[2].n = 1

====
